---------------------------- MODULE Spec2Model ----------------------------
(***************************************************************************)
(* Model of the audio-asset backend: the SecurityMiddleware admission      *)
(* guard (app/middleware/security.py), the slowapi endpoint limiter of the *)
(* audio router (app/routers/audio.py), the application assembly           *)
(* (app/main.py) and the asset lifecycle (routers/audio.py,                *)
(* services/audio_service.py, utils/helpers.py, models/audio.py).          *)
(*                                                                         *)
(* Python strings whose content the code inspects (header values,          *)
(* content-length, language codes, file names, paths) are sequences of     *)
(* one-character strings, so that lower(), strip(), split(), the "in"      *)
(* substring test and int() are computed, not assumed.                     *)
(***************************************************************************)
EXTENDS Integers, Sequences, FiniteSets, TLC

VARIABLES
    now,            \* time.time(), in seconds
    request_count,  \* SecurityMiddleware.request_count: client -> timestamps
    blocked_ips,    \* SecurityMiddleware.blocked_ips
    limiter_store,  \* storage of the router's Limiter: <<client, endpoint>> -> [count, expiry]
    response,       \* what the last request was answered with
    admitted,       \* history: per client, the in-window times of requests that reached rate accounting
    burst,          \* history: per client, 101 requests reached rate accounting inside one window
    sent_start,     \* history: per client, start of the observed run of requests
    sent_in,        \* history: per client, requests issued less than 60 s after sent_start
    upload_log,     \* history: per client, the times of the uploads of the last 60 s that reached the route
    upload_run,     \* history: per client, the uploads since the first one of the current minute
    sent,           \* history: per client, requests issued so far (saturating)
    invalid_sent,   \* history: structurally invalid requests issued so far
    records,        \* the audio_files collection, in natural (insertion) order
    files,          \* the file system: path -> size in bytes
    next_id,        \* ObjectIds handed out by the store so far
    next_token,     \* uuid4 tokens drawn so far
    result,         \* outcome of the last asset operation
    en_track,       \* history: what happened since the last upload of an mp3 as 'english'
    call,           \* the last call of a helper function: its input and what it returned
    inflight,       \* the requests inside SecurityMiddleware.__call__: slot -> position
    deleting        \* the requests inside the delete route: slot -> position

guard_vars == <<request_count, blocked_ips>>
hist_vars == <<admitted, burst, sent_start, sent_in, upload_log, upload_run, sent, invalid_sent>>
asset_vars == <<records, files, next_id, next_token, result, en_track>>
admission_vars == <<request_count, blocked_ips, limiter_store, response,
                    admitted, burst, sent_start, sent_in, upload_log, upload_run,
                    sent, invalid_sent>>
vars == <<now, request_count, blocked_ips, limiter_store, response,
          admitted, burst, sent_start, sent_in, upload_log, upload_run, sent, invalid_sent,
          records, files, next_id, next_token, result, en_track, call, inflight, deleting>>

-----------------------------------------------------------------------------
(* Strings as sequences of characters *)

UpperChars == <<"A","B","C","D","E","F","G","H","I","J","K","L","M",
                "N","O","P","Q","R","S","T","U","V","W","X","Y","Z">>
LowerChars == <<"a","b","c","d","e","f","g","h","i","j","k","l","m",
                "n","o","p","q","r","s","t","u","v","w","x","y","z">>
Digits == <<"0","1","2","3","4","5","6","7","8","9">>
Whitespace == {" ", "\t", "\n"}

\* str.lower() on one character
LowerChar(ch) ==
    IF \E i \in 1..Len(UpperChars) : UpperChars[i] = ch
    THEN LowerChars[CHOOSE i \in 1..Len(UpperChars) : UpperChars[i] = ch]
    ELSE ch

\* str.lower()
StrLower(s) == [i \in 1..Len(s) |-> LowerChar(s[i])]

\* pattern in value
Contains(s, p) ==
    \E i \in 1..(Len(s) - Len(p) + 1) : SubSeq(s, i, i + Len(p) - 1) = p

\* str.startswith
StartsWith(s, p) == Len(s) >= Len(p) /\ SubSeq(s, 1, Len(p)) = p

IsDigit(ch) == \E i \in 1..Len(Digits) : Digits[i] = ch
DigitValue(ch) == (CHOOSE i \in 1..Len(Digits) : Digits[i] = ch) - 1

RECURSIVE DecimalValue(_)
DecimalValue(s) ==
    IF s = <<>> THEN 0
    ELSE 10 * DecimalValue(SubSeq(s, 1, Len(s) - 1)) + DigitValue(s[Len(s)])

\* int(s) raises ValueError unless s is a decimal numeral (the header values
\* used here carry no sign, blank or underscore)
IntRaises(s) == ~(s # <<>> /\ \A i \in 1..Len(s) : IsDigit(s[i]))

\* int(s) when it does not raise
ParseInt(s) == DecimalValue(s)

-----------------------------------------------------------------------------
(* Program constants *)

Window == 60
RateThreshold == 100
MaxBodySize == 10 * 1024 * 1024
UploadLimit == 10
LimiterPeriod == 60

suspicious_headers == {"x-forwarded-for", "x-real-ip", "x-cluster-client-ip",
                       "x-forwarded", "x-forwarded-proto", "x-forwarded-host"}
injection_patterns == { <<"<","s","c","r","i","p","t">>,
                        <<"j","a","v","a","s","c","r","i","p","t",":">>,
                        <<"d","a","t","a",":">> }

-----------------------------------------------------------------------------
(* Bounds and the inputs drawn *)

MaxTicks == 2
MaxOther == 1
MaxInvalid == 1
MaxSent == 13
MaxUploads == 2
MaxIds == 2
MaxInflight == 2
MaxDeletes == 2
MaxRaceRecords == 1

TickStep == Window \div 2
Flooder == "10.0.0.1"
Clients == {"10.0.0.1", "10.0.0.2"}

\* request.headers of the requests drawn: header name -> value
NoHeaders == <<>>
Benign == <<"1",".","2",".","3",".","4">>
ScriptLower == <<"a","<","s","c","r","i","p","t",">">>
ScriptUpper == <<"<","S","C","R","I","P","T">>
JavascriptUri == <<"j","a","v","a","s","c","r","i","p","t",":","x">>
DataUri == <<"D","a","t","a",":","x">>
RequestHeaders ==
    { NoHeaders,
      [n \in {"x-forwarded-for"} |-> Benign],
      [n \in {"x-forwarded-for"} |-> ScriptLower],
      [n \in {"x-real-ip"} |-> ScriptUpper],
      [n \in {"x-forwarded-host"} |-> JavascriptUri],
      [n \in {"x-forwarded-proto"} |-> DataUri],
      [n \in {"user-agent"} |-> ScriptLower],
      [n \in {"content-length"} |-> <<>>],
      [n \in {"content-length"} |-> <<"1","2">>],
      [n \in {"content-length"} |-> <<"1","0","4","8","5","7","6","0">>],
      [n \in {"content-length"} |-> <<"1","0","4","8","5","7","6","1">>],
      [n \in {"content-length"} |-> <<"a","b","c">>],
      [n \in {"x-cluster-client-ip", "content-length"} |->
          IF n = "content-length" THEN <<"1","2">> ELSE ScriptLower] }

-----------------------------------------------------------------------------
(* SecurityMiddleware *)

\* mutant: the '<script' pattern is not looked for
ValidateRequest_no_script(h) ==
    IF \E header \in suspicious_headers :
          /\ header \in DOMAIN h
          /\ \E pattern \in injection_patterns \ { <<"<","s","c","r","i","p","t">> } :
                Contains(StrLower(h[header]), pattern)
    THEN FALSE
    ELSE TRUE

\* _validate_request: False on a forwarding header carrying an injection
\* pattern, on a content-length above 10 MiB, and on any exception (int() of
\* a non-numeric content-length)
ValidateRequest(h) ==
    IF \E header \in suspicious_headers :
          /\ header \in DOMAIN h
          /\ \E pattern \in injection_patterns : Contains(StrLower(h[header]), pattern)
    THEN FALSE
    ELSE IF "content-length" \in DOMAIN h /\ h["content-length"] # <<>>
         THEN IF IntRaises(h["content-length"])
              THEN FALSE
              ELSE ~(ParseInt(h["content-length"]) > MaxBodySize)
         ELSE TRUE

\* self.request_count[client_ip], [] when the client has no entry yet
RequestTimes(c) == IF c \in DOMAIN request_count THEN request_count[c] ELSE <<>>

\* mutation of the list comprehension: a timestamp exactly 60 seconds old is kept
PruneWindow_inclusive(times, current_time) ==
    SelectSeq(times, LAMBDA req_time : current_time - req_time <= Window)

\* the list comprehension of _log_request: keep req_time with current_time - req_time < 60
PruneWindow(times, current_time) ==
    SelectSeq(times, LAMBDA req_time : current_time - req_time < Window)

\* mutation of _log_request: the list is replaced by the current request alone
WindowAfter_overwrite(c, current_time) == <<current_time>>

\* _log_request, the list after "Clean old requests" and "Add current request"
WindowAfter(c, current_time) ==
    Append(PruneWindow(RequestTimes(c), current_time), current_time)

\* mutant: the block one request late
ShouldBlock_late(c, current_time) == Len(WindowAfter(c, current_time)) > RateThreshold + 1

\* _log_request, "Block IP if too many requests"
ShouldBlock(c, current_time) == Len(WindowAfter(c, current_time)) > RateThreshold

\* _log_request: the new request_count and blocked_ips
LogRequest(c, current_time) ==
    /\ request_count' = [k \in DOMAIN request_count \cup {c} |->
                            IF k = c THEN WindowAfter(c, current_time)
                            ELSE request_count[k]]
    /\ blocked_ips' = IF ShouldBlock(c, current_time)
                      THEN blocked_ips \cup {c}
                      ELSE blocked_ips

\* the requests drawn that _validate_request accepts
ValidHeaders == {h \in RequestHeaders : ValidateRequest(h)}

\* the check "client_ip in self.blocked_ips" of __call__
IsBlocked(c) == c \in blocked_ips

-----------------------------------------------------------------------------
(* The endpoint limiter of the audio router: Limiter(key_func=get_remote_address)
   with @limiter.limit("N/minute"); slowapi's default strategy is a fixed
   window held in memory: the first hit of a key opens a window of one
   period, every hit increments the key's counter, the key expires when the
   period has passed, and a hit is refused when the counter exceeds N. *)

\* mutant: the upload route is decorated with one request more per minute
LimitOf_eleven(endpoint) ==
    CASE endpoint = "upload" -> UploadLimit + 1
      [] OTHER -> 0

LimitOf(endpoint) ==
    CASE endpoint = "upload" -> UploadLimit
      [] OTHER -> 0      \* no @limiter.limit on the route

IsLimited(endpoint) == endpoint = "upload"

\* the counter of a key that has not expired
LiveEntry(key, t) ==
    IF key \in DOMAIN limiter_store /\ limiter_store[key].expiry > t
    THEN limiter_store[key]
    ELSE [count |-> 0, expiry |-> t + LimiterPeriod]

\* the entry after one hit
HitEntry(key, t) ==
    [count |-> LiveEntry(key, t).count + 1, expiry |-> LiveEntry(key, t).expiry]

\* the hit is within the limit; otherwise RateLimitExceeded, answered 429
LimiterAllows(c, endpoint, t) ==
    HitEntry(<<c, endpoint>>, t).count <= LimitOf(endpoint)

LimiterHit(c, endpoint, t) ==
    limiter_store' = [k \in DOMAIN limiter_store \cup {<<c, endpoint>>} |->
                         IF k = <<c, endpoint>> THEN HitEntry(k, t)
                         ELSE limiter_store[k]]

-----------------------------------------------------------------------------
(* helpers.py, models/audio.py and config.py: pure functions of the asset lifecycle *)

MAX_FILE_SIZE == 10485760
ALLOWED_AUDIO_FORMATS == { <<"m","p","3">>, <<"w","a","v">>, <<"m","4","a">> }
AUDIO_FILES_PATH == <<".","/","a","u","d","i","o","_","f","i","l","e","s">>
UrlBase == <<"h","t","t","p",":","/","/","l","o","c","a","l","h","o","s","t",":",
             "8","0","0","0","/","a","u","d","i","o","_","f","i","l","e","s","/">>
En == <<"e","n">>
Ar == <<"a","r">>
English == <<"e","n","g","l","i","s","h">>
Arabic == <<"a","r","a","b","i","c">>
Eng == <<"e","n","g">>
Ara == <<"a","r","a">>

RECURSIVE StripLeft(_)
StripLeft(s) ==
    IF s # <<>> /\ s[1] \in Whitespace THEN StripLeft(Tail(s)) ELSE s

RECURSIVE StripRight(_)
StripRight(s) ==
    IF s # <<>> /\ s[Len(s)] \in Whitespace
    THEN StripRight(SubSeq(s, 1, Len(s) - 1)) ELSE s

\* str.strip()
StrStrip(s) == StripRight(StripLeft(s))

\* s.split(sep): the parts between the separators
RECURSIVE SplitOn(_, _)
SplitOn(s, sep) ==
    IF \E i \in 1..Len(s) : s[i] = sep
    THEN LET i == CHOOSE i \in 1..Len(s) :
                     s[i] = sep /\ \A j \in 1..(i - 1) : s[j] # sep
         IN  <<SubSeq(s, 1, i - 1)>> \o SplitOn(SubSeq(s, i + 1, Len(s)), sep)
    ELSE <<s>>

\* filename.split('.')[-1].lower()
FileExtension(filename) ==
    StrLower(SplitOn(filename, ".")[Len(SplitOn(filename, "."))])

\* mutation of normalize_language_code: the alias table is not consulted
NormalizeLanguageCode_no_alias(language) == StrStrip(StrLower(language))

\* mutation of normalize_language_code: 'english' and 'arabic' are mapped to
\* the three-letter aliases
NormalizeLanguageCode_chained(language) ==
    LET l == StrStrip(StrLower(language)) IN
    CASE l = English -> Eng
      [] l = Eng -> En
      [] l = Arabic -> Ara
      [] l = Ara -> Ar
      [] OTHER -> l

\* normalize_language_code
NormalizeLanguageCode(language) ==
    LET l == StrStrip(StrLower(language)) IN
    CASE l = English -> En
      [] l = Eng -> En
      [] l = Arabic -> Ar
      [] l = Ara -> Ar
      [] OTHER -> l

\* mutation of validate_audio_file: the filename is looked at before the size
ValidateAudioFile_name_first(file) ==
    IF file.filename = <<>> THEN "no filename"
    ELSE IF file.size > 0 /\ file.size > MAX_FILE_SIZE THEN "size exceeds maximum"
    ELSE IF FileExtension(file.filename) \notin ALLOWED_AUDIO_FORMATS THEN "format not allowed"
    ELSE IF file.content_type # <<>>
            /\ ~StartsWith(file.content_type, <<"a","u","d","i","o","/">>)
         THEN "not an audio file"
    ELSE "ok"

\* validate_audio_file: the first failing check, or "ok"; size -1 and
\* content type <<>> stand for None
ValidateAudioFile(file) ==
    IF file.size > 0 /\ file.size > MAX_FILE_SIZE THEN "size exceeds maximum"
    ELSE IF file.filename = <<>> THEN "no filename"
    ELSE IF FileExtension(file.filename) \notin ALLOWED_AUDIO_FORMATS THEN "format not allowed"
    ELSE IF file.content_type # <<>>
            /\ ~StartsWith(file.content_type, <<"a","u","d","i","o","/">>)
         THEN "not an audio file"
    ELSE "ok"

\* generate_file_url
GenerateFileUrl(filename) == UrlBase \o filename

\* AudioFileBase.validate_language accepts the value
LanguageAccepted(v) == StrLower(v) \in {En, Ar, English, Arabic}

\* AudioFileBase.validate_format accepts the value
FormatAccepted(v) ==
    StrLower(v) \in { <<"m","p","3">>, <<"w","a","v">>, <<"m","4","a">>, <<"o","g","g">> }

\* AudioFileCreate(...) / AudioFile(**doc) validates without raising
ModelAccepts(doc) == LanguageAccepted(doc.language) /\ FormatAccepted(doc.format)

\* the validated model: both validators return the lower-cased value
ModelOf(doc) ==
    [doc EXCEPT !.language = StrLower(@), !.format = StrLower(@)]

-----------------------------------------------------------------------------
(* The file system under save_uploaded_file, os.path.exists and os.remove:
   a path is a sequence of components, a file a path with a size. *)

Cwd == << <<"s","r","v">> >>
RootDir == Cwd \o << <<"a","u","d","i","o","_","f","i","l","e","s">> >>
\* the directories that exist (os.makedirs creates the storage root)
Dirs == { <<>>, Cwd, RootDir, << <<"t","m","p">> >> }

\* os.path.join(a, b)
JoinPath(a, b) ==
    IF b # <<>> /\ b[1] = "/" THEN b
    ELSE IF a = <<>> \/ a[Len(a)] = "/" THEN a \o b
    ELSE a \o <<"/">> \o b

\* the directory reached from cur through the components comps; each must exist
RECURSIVE WalkDirs(_, _)
WalkDirs(cur, comps) ==
    IF comps = <<>> THEN [ok |-> TRUE, dir |-> cur]
    ELSE LET c == Head(comps) IN
         IF c = <<>> \/ c = <<".">> THEN WalkDirs(cur, Tail(comps))
         ELSE IF c = <<".", ".">>
              THEN WalkDirs(IF cur = <<>> THEN cur ELSE SubSeq(cur, 1, Len(cur) - 1),
                            Tail(comps))
         ELSE IF Append(cur, c) \in Dirs THEN WalkDirs(Append(cur, c), Tail(comps))
         ELSE [ok |-> FALSE, dir |-> cur]

\* the file a path string names, as open(path, 'wb') resolves it: not ok
\* when a directory on the way is missing or the path names a directory
ResolveFile(path) ==
    LET comps == SplitOn(path, "/")
        start == IF path # <<>> /\ path[1] = "/" THEN <<>> ELSE Cwd
        parent == WalkDirs(start, SubSeq(comps, 1, Len(comps) - 1))
        name == comps[Len(comps)]
    IN  IF ~parent.ok \/ name = <<>> \/ name = <<".">> \/ name = <<".", ".">>
           \/ Append(parent.dir, name) \in Dirs
        THEN [ok |-> FALSE, file |-> <<>>]
        ELSE [ok |-> TRUE, file |-> Append(parent.dir, name)]

\* the path lies directly under the storage root
InsideRoot(file) ==
    Len(file) = Len(RootDir) + 1 /\ SubSeq(file, 1, Len(RootDir)) = RootDir

\* uuid.uuid4().hex of the n-th upload: a token without separators
TokenHex(n) == <<"x", Digits[n + 1]>>

\* f"{normalized_lang}_{uuid.uuid4().hex}.{file_extension}"
UniqueFilename(normalized_lang, n, file_extension) ==
    normalized_lang \o <<"_">> \o TokenHex(n) \o <<".">> \o file_extension

-----------------------------------------------------------------------------
(* History kept for the properties (no code reads it) *)

BurstSize == RateThreshold + 1
Recent(times, t) == SelectSeq(times, LAMBDA s : t - s < Window)
HasScript(h) ==
    \E n \in suspicious_headers :
        n \in DOMAIN h /\ Contains(h[n], <<"<","s","c","r","i","p","t">>)

\* a request of client c was issued at time t
NoteSent(c, t) ==
    /\ sent' = [sent EXCEPT ![c] = IF @ < MaxSent THEN @ + 1 ELSE @]
    /\ IF sent_in[c] >= BurstSize
       THEN UNCHANGED <<sent_start, sent_in>>
       ELSE IF sent_in[c] = 0 \/ ~(t - sent_start[c] < Window)
            THEN /\ sent_start' = [sent_start EXCEPT ![c] = t]
                 /\ sent_in' = [sent_in EXCEPT ![c] = 1]
            ELSE /\ sent_in' = [sent_in EXCEPT ![c] = @ + 1]
                 /\ UNCHANGED sent_start

\* a request of client c reached rate accounting at time t
NoteAdmitted(c, t) ==
    /\ admitted' = [admitted EXCEPT ![c] = Append(Recent(@, t), t)]
    /\ burst' = [burst EXCEPT ![c] = @ \/ Len(Recent(admitted[c], t)) + 1 >= BurstSize]

\* the uploads of client c since the first one of its current minute, this
\* one at time t included
RunAfter(c, t) ==
    IF upload_run[c].count = 0 \/ ~(t - upload_run[c].start < LimiterPeriod)
    THEN [start |-> t, count |-> 1]
    ELSE [start |-> upload_run[c].start, count |-> upload_run[c].count + 1]

\* a request of client c reached the route of endpoint at time t
NoteRoute(c, endpoint, t) ==
    IF endpoint = "upload"
    THEN /\ upload_log' = [upload_log EXCEPT ![c] = Append(Recent(@, t), t)]
         /\ upload_run' = [upload_run EXCEPT ![c] = RunAfter(c, t)]
    ELSE UNCHANGED <<upload_log, upload_run>>

ScriptHeaders == {h \in RequestHeaders : HasScript(h)}

Answer(c, h, endpoint, status, forwarded, handled, checks) ==
    response' = [client |-> c, endpoint |-> endpoint, status |-> status,
                 forwarded |-> forwarded, handled |-> handled,
                 script |-> h \in ScriptHeaders,
                 was_blocked |-> c \in blocked_ips,
                 had_burst |-> burst[c],
                 had_sent_burst |-> sent_in[c] >= BurstSize,
                 guard_checks |-> checks,
                 recent_uploads |-> IF forwarded /\ endpoint = "upload"
                                    THEN Len(Recent(upload_log[c], now)) + 1 ELSE 0,
                 run_uploads |-> IF forwarded /\ endpoint = "upload"
                                 THEN RunAfter(c, now).count ELSE 0]

-----------------------------------------------------------------------------
(* One request through SecurityMiddleware.__call__ and the application it wraps *)

\* the application below the middleware, for a route of the audio router:
\* the limiter's wrapper, then the handler body; checks counts the guard's
\* checks the request went through
RouteCall(c, h, endpoint, checks) ==
    /\ NoteRoute(c, endpoint, now)
    /\ IF IsLimited(endpoint)
       THEN /\ LimiterHit(c, endpoint, now)
            /\ IF LimiterAllows(c, endpoint, now)
               THEN Answer(c, h, endpoint, 200, TRUE, TRUE, checks)
               ELSE Answer(c, h, endpoint, 429, TRUE, FALSE, checks)
       ELSE /\ UNCHANGED limiter_store
            /\ Answer(c, h, endpoint, 200, TRUE, TRUE, checks)

\* mutation of __call__: the request is logged before it is validated
SecurityMiddlewareCall_log_first(c, h, endpoint) ==
    LET valid == h \in ValidHeaders IN
    /\ IF IsBlocked(c)
       THEN /\ Answer(c, h, endpoint, 403, FALSE, FALSE, 1)
            /\ UNCHANGED <<guard_vars, limiter_store, admitted, burst,
                           upload_log, upload_run>>
       ELSE IF ~valid
       THEN /\ LogRequest(c, now)
            /\ NoteAdmitted(c, now)
            /\ Answer(c, h, endpoint, 400, FALSE, FALSE, 2)
            /\ UNCHANGED <<limiter_store, upload_log, upload_run>>
       ELSE /\ LogRequest(c, now)
            /\ NoteAdmitted(c, now)
            /\ RouteCall(c, h, endpoint, 3)

\* SecurityMiddleware.__call__ for one request, run to its end
SecurityMiddlewareCall(c, h, endpoint) ==
    LET valid == h \in ValidHeaders IN
    /\ IF IsBlocked(c)
       THEN /\ Answer(c, h, endpoint, 403, FALSE, FALSE, 1)
            /\ UNCHANGED <<guard_vars, limiter_store, admitted, burst,
                           upload_log, upload_run>>
       ELSE IF ~valid
       THEN /\ Answer(c, h, endpoint, 400, FALSE, FALSE, 2)
            /\ UNCHANGED <<guard_vars, limiter_store, admitted, burst,
                           upload_log, upload_run>>
       ELSE /\ LogRequest(c, now)
            /\ NoteAdmitted(c, now)
            /\ RouteCall(c, h, endpoint, 3)

\* the middleware main.py adds to the application, outermost first
installed_middleware == <<"CORSMiddleware", "LoggingMiddleware", "SecurityLoggingMiddleware">>

\* one HTTP request to the assembled application: LoggingMiddleware and
\* SecurityLoggingMiddleware log and call_next, CORSMiddleware adds headers;
\* SecurityMiddleware acts only if main.py installed it
AppCall(c, h, endpoint) ==
    /\ NoteSent(c, now)
    /\ invalid_sent' = IF h \in ValidHeaders THEN invalid_sent ELSE invalid_sent + 1
    /\ UNCHANGED now
    /\ UNCHANGED <<asset_vars, call, inflight, deleting>>
    /\ IF \E i \in 1..Len(installed_middleware) : installed_middleware[i] = "SecurityMiddleware"
       THEN SecurityMiddlewareCall(c, h, endpoint)
       ELSE /\ RouteCall(c, h, endpoint, 0)
            /\ UNCHANGED <<guard_vars, admitted, burst>>

\* one HTTP request to SecurityMiddleware(app), the composition the class is written for
GuardedCall(c, h, endpoint) ==
    /\ NoteSent(c, now)
    /\ invalid_sent' = IF h \in ValidHeaders THEN invalid_sent ELSE invalid_sent + 1
    /\ UNCHANGED <<now, asset_vars, call, inflight, deleting>>
    /\ SecurityMiddlewareCall(c, h, endpoint)

-----------------------------------------------------------------------------
(* The asset lifecycle: routers/audio.py over services/audio_service.py *)

NoDoc == [id |-> 0, language |-> <<>>, filename |-> <<>>, url |-> <<>>,
          file_size |-> 0, duration |-> -1, format |-> <<>>,
          created_at |-> 0, updated_at |-> 0]

NoResult == [op |-> "none", status |-> 0, language |-> <<>>, id |-> 0, doc |-> NoDoc,
             file |-> "none", bytes |-> 0, separator |-> FALSE, wrote |-> FALSE,
             path |-> <<>>, store_deleted |-> FALSE, remove_failed |-> FALSE,
             logged |-> FALSE, existed |-> FALSE, store_changed |-> FALSE,
             invalid_id |-> FALSE, raised |-> "none",
             twin |-> [status |-> 0, doc |-> NoDoc],
             languages |-> <<>>]

\* bson.ObjectId(audio_id) for a string: 24 characters that bytes.fromhex
\* accepts, InvalidId otherwise (the strings drawn carry no whitespace)
HexChars == <<"0","1","2","3","4","5","6","7","8","9","a","b","c","d","e","f">>
IsHex(ch) == \E i \in 1..Len(HexChars) : HexChars[i] = LowerChar(ch)
HexDigitValue(ch) == (CHOOSE i \in 1..Len(HexChars) : HexChars[i] = LowerChar(ch)) - 1
ObjectIdIsValid(s) == Len(s) = 24 /\ \A i \in 1..Len(s) : IsHex(s[i])

\* the ObjectId a valid string names; the store's ids are small numbers, and a
\* string that names none of them stands for an id that is not in the store
RECURSIVE HexValue(_)
HexValue(s) ==
    IF s = <<>> THEN 0
    ELSE LET high == HexValue(SubSeq(s, 1, Len(s) - 1)) IN
         IF high >= 16 THEN high ELSE 16 * high + HexDigitValue(s[Len(s)])
ObjectIdOf(s) == HexValue(s)

\* str(ObjectId) of the n-th id of the store
ObjectIdStr(n) == [i \in 1..24 |-> IF i = 24 THEN HexChars[n + 1] ELSE "0"]

\* the identifiers drawn: those the store can hand out, one that names no
\* record, and strings that are not identifiers
Ids == 1..MaxIds
MalformedIds ==
    { <<"a","b","c">>,
      [i \in 1..23 |-> "0"],
      [i \in 1..25 |-> "0"],
      [i \in 1..24 |-> IF i = 24 THEN "g" ELSE "0"] }
IdInputs == {ObjectIdStr(id) : id \in Ids} \cup MalformedIds
              \cup {[i \in 1..24 |-> IF i = 24 THEN "A" ELSE "0"]}

\* ObjectId(audio_id) on the identifiers drawn
object_ids ==
    [a \in IdInputs |-> [valid |-> ObjectIdIsValid(a),
                         id |-> IF ObjectIdIsValid(a) THEN ObjectIdOf(a) ELSE 0]]

\* collection.find_one(filter): the first document among the positions that
\* match the filter, NoDoc for None
FindOne(docs, matching) ==
    IF matching = {} THEN NoDoc
    ELSE docs[CHOOSE i \in matching : \A j \in matching : i <= j]

\* collection.delete_one({"_id": id}): the collection without the first match
DeleteOne(docs, id) == SelectSeq(docs, LAMBDA d : d.id # id)

\* the upload handles drawn: file.filename, file.size (-1: None),
\* file.content_type (<<>>: None) and the number of bytes read
AudioMpeg == <<"a","u","d","i","o","/","m","p","e","g">>
TextPlain == <<"t","e","x","t","/","p","l","a","i","n">>
UploadFiles ==
    [ mp3 |-> [filename |-> <<"a",".","m","p","3">>, size |-> 12,
               content_type |-> AudioMpeg, bytes |-> 12],
      MP3 |-> [filename |-> <<"b",".","c",".","M","P","3">>, size |-> -1,
               content_type |-> <<>>, bytes |-> 5],
      wav |-> [filename |-> <<"c",".","w","a","v">>, size |-> 0,
               content_type |-> AudioMpeg, bytes |-> 0],
      exe |-> [filename |-> <<"d",".","e","x","e">>, size |-> 12,
               content_type |-> AudioMpeg, bytes |-> 12],
      unnamed |-> [filename |-> <<>>, size |-> 12,
                   content_type |-> AudioMpeg, bytes |-> 12],
      huge |-> [filename |-> <<"e",".","m","p","3">>, size |-> MAX_FILE_SIZE + 1,
                content_type |-> AudioMpeg, bytes |-> MAX_FILE_SIZE + 1],
      text |-> [filename |-> <<"f",".","m","p","3">>, size |-> 12,
                content_type |-> TextPlain, bytes |-> 12] ]

\* the language inputs drawn
LanguageInputs ==
    { En, English, <<" ","E","N","G"," ">>, Ar, <<"f","r">>,
      <<".",".","/","x">>, <<"a","/","b">> }

\* validate_audio_file and normalize_language_code on the inputs drawn
\* history: the handles that carry a valid mp3 file
Mp3Files == {"mp3", "MP3"}

validation == [f \in DOMAIN UploadFiles |-> ValidateAudioFile(UploadFiles[f])]
normalized == [l \in LanguageInputs |-> NormalizeLanguageCode(l)]

\* create_audio_file: the document inserted, with the id the store assigns
NewDoc(audio_data, id, t) ==
    [id |-> id, language |-> audio_data.language, filename |-> audio_data.filename,
     url |-> audio_data.url, file_size |-> audio_data.file_size,
     duration |-> audio_data.duration, format |-> audio_data.format,
     created_at |-> t, updated_at |-> t]

\* POST /api/audio/upload: upload_audio_file
UploadAudioFile(language, f) ==
    LET file == UploadFiles[f]
        normalized_lang == normalized[language]
        file_extension == FileExtension(file.filename)
        unique_filename == UniqueFilename(normalized_lang, next_token, file_extension)
        target == ResolveFile(JoinPath(AUDIO_FILES_PATH, unique_filename))
        audio_data == [language |-> normalized_lang, filename |-> unique_filename,
                       url |-> GenerateFileUrl(unique_filename),
                       file_size |-> file.bytes, duration |-> -1,
                       format |-> file_extension]
        doc == NewDoc(ModelOf(audio_data), next_id + 1, now)
        base == [NoResult EXCEPT !.op = "upload", !.language = language, !.file = f,
                                 !.bytes = file.bytes]
    IN
    /\ UNCHANGED <<now, admission_vars, call, inflight, deleting>>
    /\ IF validation[f] # "ok"
       THEN \* HTTPException 400 with the validator's message
            /\ result' = [base EXCEPT !.status = 400]
            /\ UNCHANGED <<records, files, next_id, next_token, en_track>>
       ELSE /\ next_token' = next_token + 1
            /\ IF ~target.ok
               THEN \* save_uploaded_file raises; the generic handler answers 500
                    /\ result' = [base EXCEPT !.status = 500, !.logged = TRUE,
                                              !.separator = Contains(unique_filename, <<"/">>)]
                    /\ UNCHANGED <<records, files, next_id, en_track>>
               ELSE /\ files' = [p \in DOMAIN files \cup {target.file} |->
                                    IF p = target.file THEN file.bytes ELSE files[p]]
                    /\ IF ~ModelAccepts(audio_data)
                       THEN \* AudioFileCreate raises; the generic handler answers 500
                            /\ result' = [base EXCEPT !.status = 500, !.logged = TRUE,
                                             !.wrote = TRUE, !.path = target.file,
                                             !.separator = Contains(unique_filename, <<"/">>)]
                            /\ UNCHANGED <<records, next_id, en_track>>
                       ELSE /\ records' = Append(records, doc)
                            /\ next_id' = next_id + 1
                            /\ result' = [base EXCEPT !.status = 200, !.doc = doc,
                                             !.id = doc.id, !.wrote = TRUE,
                                             !.path = target.file, !.store_changed = TRUE,
                                             !.separator = Contains(unique_filename, <<"/">>)]
                            /\ en_track' = IF language = English /\ f \in Mp3Files
                                           THEN "uploaded" ELSE en_track

\* AudioService.create_audio_file called with AudioFileCreate(**file_data),
\* as scripts/seed_database.py does: no file is written (duration in tenths
\* of a second)
CreateAudioFile(language, filename) ==
    LET file_data == [language |-> language, filename |-> filename,
                      url |-> GenerateFileUrl(filename), file_size |-> 1024000,
                      duration |-> 305, format |-> <<"m","p","3">>]
        doc == NewDoc(ModelOf(file_data), next_id + 1, now)
        base == [NoResult EXCEPT !.op = "create", !.language = language]
    IN
    /\ UNCHANGED <<now, admission_vars, files, next_token, en_track, call, inflight, deleting>>
    /\ IF ~ModelAccepts(file_data)
       THEN /\ result' = [base EXCEPT !.status = 500]
            /\ UNCHANGED <<records, next_id>>
       ELSE /\ records' = Append(records, doc)
            /\ next_id' = next_id + 1
            /\ result' = [base EXCEPT !.status = 200, !.doc = doc, !.id = doc.id,
                                      !.store_changed = TRUE]

\* the partial updates drawn: AudioFileUpdate with the fields that are not None
UpdateFields ==
    { [k \in {"language"} |-> Ar],
      [k \in {"language"} |-> <<"F","R">>],
      [k \in {"format"} |-> <<"e","x","e">>] }

\* "$set": update_doc on one document
SetFields(d, update_doc) ==
    [k \in DOMAIN d |-> IF k \in DOMAIN update_doc THEN update_doc[k] ELSE d[k]]

\* AudioService.update_audio_file: status 200 for the returned model, 404 for
\* None, 500 for the exception it re-raises
UpdateAudioFile(id, update_data) ==
    LET update_doc == [k \in DOMAIN update_data \cup {"updated_at"} |->
                          IF k = "updated_at" THEN now ELSE update_data[k]]
        old == FindOne(records, {i \in 1..Len(records) : records[i].id = id})
        new == SetFields(old, update_doc)
        matched == old # NoDoc
        modified_count == IF matched /\ new # old THEN 1 ELSE 0
        base == [NoResult EXCEPT !.op = "update", !.id = id, !.existed = matched]
    IN
    /\ UNCHANGED <<now, admission_vars, files, next_id, next_token, call, inflight, deleting>>
    /\ records' = [i \in 1..Len(records) |->
                      IF records[i].id = id THEN new ELSE records[i]]
    /\ en_track' = IF matched /\ en_track = "uploaded" THEN "updated" ELSE en_track
    /\ result' = IF modified_count > 0
                 THEN IF ModelAccepts(new)
                      THEN [base EXCEPT !.status = 200, !.doc = ModelOf(new),
                                        !.store_changed = TRUE]
                      ELSE \* AudioFile(**updated_doc) raises after the write
                           [base EXCEPT !.status = 500, !.logged = TRUE,
                                        !.store_changed = TRUE]
                 ELSE [base EXCEPT !.status = 404]

\* DELETE /api/audio/{audio_id}: delete_audio_file; remove_raises says
\* whether os.remove fails on this call
DeleteAudioFile(audio_id, remove_raises) ==
    LET id == object_ids[audio_id].id
        audio_doc == FindOne(records, {i \in 1..Len(records) : records[i].id = id})
        deleted == Len(DeleteOne(records, id)) < Len(records)
        target == ResolveFile(JoinPath(AUDIO_FILES_PATH, audio_doc.filename))
        exists == target.ok /\ target.file \in DOMAIN files
        base == [NoResult EXCEPT !.op = "delete", !.id = id,
                                 !.existed = (audio_doc # NoDoc)]
    IN
    /\ UNCHANGED <<now, admission_vars, next_id, next_token, call, inflight, deleting>>
    /\ IF ~object_ids[audio_id].valid
       THEN \* ObjectId(audio_id) raises InvalidId in get_audio_by_id; the
            \* generic handler logs and answers 500
            /\ result' = [NoResult EXCEPT !.op = "delete", !.status = 500,
                             !.logged = TRUE, !.invalid_id = TRUE,
                             !.raised = "InvalidId"]
            /\ UNCHANGED <<records, files, en_track>>
       ELSE IF audio_doc = NoDoc
       THEN \* get_audio_by_id returned None
            /\ result' = [base EXCEPT !.status = 404]
            /\ UNCHANGED <<records, files, en_track>>
       ELSE IF ~ModelAccepts(audio_doc)
       THEN \* AudioFile(**audio_doc) raises in get_audio_by_id
            /\ result' = [base EXCEPT !.status = 500, !.logged = TRUE]
            /\ UNCHANGED <<records, files, en_track>>
       ELSE /\ records' = DeleteOne(records, id)
            /\ en_track' = IF deleted /\ en_track \in {"uploaded", "updated"}
                           THEN "deleted" ELSE en_track
            /\ IF ~deleted
               THEN /\ result' = [base EXCEPT !.status = 404]
                    /\ UNCHANGED files
               ELSE IF exists /\ remove_raises
               THEN \* os.remove raises; the generic handler logs and answers 500
                    /\ result' = [base EXCEPT !.status = 500, !.store_deleted = TRUE,
                                     !.remove_failed = TRUE, !.logged = TRUE,
                                     !.store_changed = TRUE]
                    /\ UNCHANGED files
               ELSE /\ files' = [p \in DOMAIN files \ {target.file} |-> files[p]]
                    /\ result' = [base EXCEPT !.status = 200, !.store_deleted = TRUE,
                                              !.store_changed = TRUE]

-----------------------------------------------------------------------------
(* The delete route under concurrent requests.  The handler awaits
   get_audio_by_id and delete_audio_file, so other requests run between its
   lookup, its store delete and its file removal; os.path.exists and
   os.remove follow the second await without another one.  Each action below
   is the code between two awaits. *)

\* the delete requests that can be inside the route at once
DeleteSlots == 1..MaxDeletes
NotDeleting == [pc |-> "idle", audio_id |-> <<>>, target |-> NoDoc,
                audio_file |-> NoDoc, status |-> 0]

\* DELETE /{audio_id} arrives; target is the record the id names at that moment
ArriveDelete(d, audio_id) ==
    LET id == object_ids[audio_id].id IN
    /\ deleting[d].pc = "idle"
    /\ deleting' = [deleting EXCEPT ![d] =
                       [pc |-> "lookup", audio_id |-> audio_id,
                        target |-> IF object_ids[audio_id].valid
                                   THEN FindOne(records, {i \in 1..Len(records) :
                                                            records[i].id = id})
                                   ELSE NoDoc,
                        audio_file |-> NoDoc, status |-> 0]]
    /\ UNCHANGED <<now, admission_vars, asset_vars, call, inflight>>

\* audio_file = await audio_service.get_audio_by_id(audio_id)
LookupStep(d) ==
    LET audio_id == deleting[d].audio_id
        id == object_ids[audio_id].id
        audio_doc == FindOne(records, {i \in 1..Len(records) : records[i].id = id})
    IN
    /\ deleting[d].pc = "lookup"
    /\ deleting' = [deleting EXCEPT ![d] =
           IF ~object_ids[audio_id].valid
           THEN [@ EXCEPT !.pc = "done", !.status = 500]
           ELSE IF audio_doc = NoDoc
           THEN [@ EXCEPT !.pc = "done", !.status = 404]
           ELSE IF ~ModelAccepts(audio_doc)
           THEN [@ EXCEPT !.pc = "done", !.status = 500]
           ELSE [@ EXCEPT !.pc = "delete", !.audio_file = audio_doc]]
    /\ UNCHANGED <<now, admission_vars, asset_vars, call, inflight>>

\* deleted = await audio_service.delete_audio_file(audio_id)
StoreDeleteStep(d) ==
    LET id == object_ids[deleting[d].audio_id].id
        deleted == Len(DeleteOne(records, id)) < Len(records)
    IN
    /\ deleting[d].pc = "delete"
    /\ records' = DeleteOne(records, id)
    /\ en_track' = IF deleted /\ en_track \in {"uploaded", "updated"}
                   THEN "deleted" ELSE en_track
    /\ deleting' = [deleting EXCEPT ![d] =
           IF deleted THEN [@ EXCEPT !.pc = "remove"]
           ELSE [@ EXCEPT !.pc = "done", !.status = 404]]
    /\ UNCHANGED <<now, admission_vars, files, next_id, next_token, result, call, inflight>>

\* "Delete physical file": os.path.exists, os.remove, the 200 or the 500 of
\* the generic handler
RemoveStep(d, remove_raises) ==
    LET target == ResolveFile(JoinPath(AUDIO_FILES_PATH, deleting[d].audio_file.filename))
        exists == target.ok /\ target.file \in DOMAIN files
    IN
    /\ deleting[d].pc = "remove"
    /\ IF exists /\ remove_raises
       THEN /\ deleting' = [deleting EXCEPT ![d].pc = "done", ![d].status = 500]
            /\ UNCHANGED files
       ELSE /\ files' = [p \in DOMAIN files \ {target.file} |-> files[p]]
            /\ deleting' = [deleting EXCEPT ![d].pc = "done", ![d].status = 200]
    /\ UNCHANGED <<now, admission_vars, records, next_id, next_token, result,
                   en_track, call, inflight>>

\* AudioService.get_audio_by_id: the model of the document, None (404), or
\* the exception it logs and re-raises (500)
GetAudioById(audio_id) ==
    LET id == object_ids[audio_id].id
        audio_doc == FindOne(records, {i \in 1..Len(records) : records[i].id = id})
        base == [NoResult EXCEPT !.op = "get_by_id"]
    IN
    /\ UNCHANGED <<now, admission_vars, records, files, next_id, next_token, en_track, call, inflight, deleting>>
    /\ result' = IF ~object_ids[audio_id].valid
                 THEN [base EXCEPT !.status = 500, !.logged = TRUE,
                                   !.invalid_id = TRUE, !.raised = "InvalidId"]
                 ELSE IF audio_doc = NoDoc
                 THEN [base EXCEPT !.status = 404, !.id = id]
                 ELSE IF ~ModelAccepts(audio_doc)
                 THEN [base EXCEPT !.status = 500, !.logged = TRUE, !.id = id,
                                   !.existed = TRUE, !.raised = "ValidationError"]
                 ELSE [base EXCEPT !.status = 200, !.id = id, !.existed = TRUE,
                                   !.doc = ModelOf(audio_doc)]

\* AudioService.get_audio_by_language: its own normalisation, then find_one
ServiceGetByLanguage(language) ==
    LET l == StrLower(language)
        lang_code == IF l \in {English, En} THEN En
                     ELSE IF l \in {Arabic, Ar} THEN Ar ELSE l
    IN  FindOne(records, {i \in 1..Len(records) : records[i].language = lang_code})

\* what a caller of AudioService.get_audio_by_language gets: the model of
\* the document (200), None (404) or the re-raised exception (500)
LookupOutcome(language) ==
    LET audio_doc == ServiceGetByLanguage(language) IN
    IF audio_doc = NoDoc THEN [status |-> 404, doc |-> NoDoc]
    ELSE IF ~ModelAccepts(audio_doc) THEN [status |-> 500, doc |-> NoDoc]
    ELSE [status |-> 200, doc |-> ModelOf(audio_doc)]

\* AudioService.get_audio_by_language called with the caller's own string, as
\* scripts/seed_database.py calls it; twin is what the same call answers for
\* the normalized string
ServiceLookup(language) ==
    /\ UNCHANGED <<now, admission_vars, records, files, next_id, next_token, en_track, call, inflight, deleting>>
    /\ result' = [NoResult EXCEPT !.op = "service_lookup", !.language = language,
                     !.status = LookupOutcome(language).status,
                     !.doc = LookupOutcome(language).doc,
                     !.twin = LookupOutcome(NormalizeLanguageCode(language))]

\* the order of "$sort": strings compare by code point, character by character
CodePoints == <<" ", "-", ".", "/">> \o Digits \o UpperChars \o <<"_">> \o LowerChars
CodePoint(ch) == CHOOSE i \in 1..Len(CodePoints) : CodePoints[i] = ch
StrLess(a, b) ==
    \E i \in 1..(Len(b)) :
        /\ \A j \in 1..(i - 1) : j <= Len(a) /\ a[j] = b[j]
        /\ Len(a) >= i - 1
        /\ (Len(a) = i - 1 \/ CodePoint(a[i]) < CodePoint(b[i]))

\* mutation of the pipeline: "$sort": {"_id": -1}
RECURSIVE SortDescending(_)
SortDescending(S) ==
    IF S = {} THEN <<>>
    ELSE LET last == CHOOSE x \in S : \A y \in S \ {x} : StrLess(y, x)
         IN  <<last>> \o SortDescending(S \ {last})

\* "$sort": {"_id": 1} on the group keys
RECURSIVE SortAscending(_)
SortAscending(S) ==
    IF S = {} THEN <<>>
    ELSE LET first == CHOOSE x \in S : \A y \in S \ {x} : StrLess(x, y)
         IN  <<first>> \o SortAscending(S \ {first})

\* str.title(): a letter that follows a letter is lower-cased, any other
\* letter is upper-cased
IsLetter(ch) ==
    \E i \in 1..Len(LowerChars) : LowerChars[i] = ch \/ UpperChars[i] = ch
UpperOf(ch) ==
    IF \E i \in 1..Len(LowerChars) : LowerChars[i] = ch
    THEN UpperChars[CHOOSE i \in 1..Len(LowerChars) : LowerChars[i] = ch]
    ELSE ch
StrTitle(s) ==
    [i \in 1..Len(s) |-> IF i > 1 /\ IsLetter(s[i - 1]) THEN LowerChar(s[i])
                         ELSE UpperOf(s[i])]

\* language_names.get(lang_code, lang_code.title())
LanguageName(lang_code) ==
    CASE lang_code = En -> <<"E","n","g","l","i","s","h">>
      [] lang_code = Ar -> <<"A","r","a","b","i","c">>
      [] OTHER -> StrTitle(lang_code)

\* AudioService.get_available_languages: "$group" by language with a count,
\* "$sort" by the group key, one LanguageResponse per group
GetAvailableLanguages ==
    LET keys == SortAscending({records[i].language : i \in 1..Len(records)}) IN
    [k \in 1..Len(keys) |->
        [language |-> keys[k], language_name |-> LanguageName(keys[k]),
         count |-> Cardinality({i \in 1..Len(records) : records[i].language = keys[k]})]]

\* GET /api/audio/languages: get_available_languages
ListLanguages ==
    /\ UNCHANGED <<now, admission_vars, records, files, next_id, next_token, en_track, call, inflight, deleting>>
    /\ result' = [NoResult EXCEPT !.op = "list_languages", !.status = 200,
                                  !.languages = GetAvailableLanguages]

\* GET /api/audio/{language}: get_audio_by_language
GetAudioByLanguage(language) ==
    LET audio_doc == ServiceGetByLanguage(normalized[language])
        base == [NoResult EXCEPT !.op = "get_by_language", !.language = language]
    IN
    /\ UNCHANGED <<now, admission_vars, records, files, next_id, next_token, en_track, call, inflight, deleting>>
    /\ result' = IF audio_doc = NoDoc THEN [base EXCEPT !.status = 404]
                 ELSE IF ~ModelAccepts(audio_doc)
                      THEN [base EXCEPT !.status = 500, !.logged = TRUE]
                      ELSE [base EXCEPT !.status = 200, !.doc = ModelOf(audio_doc),
                                        !.id = audio_doc.id]

-----------------------------------------------------------------------------
(* SecurityMiddleware.__call__ under concurrent requests.  The event loop
   runs one coroutine at a time and can switch to another one only at an
   await; __call__ awaits _validate_request, _log_request, the rejection
   response and the wrapped application, and _log_request itself contains no
   await.  Each action below is the code between two awaits. *)

\* the requests that can be inside the middleware at once
Slots == 1..MaxInflight
Idle == [pc |-> "idle", client |-> "none", valid |-> TRUE]

\* a request arrives: the block-list check of __call__
Arrive(s, c, h) ==
    /\ inflight[s].pc = "idle"
    /\ inflight' = [inflight EXCEPT ![s] =
                       [pc |-> IF IsBlocked(c) THEN "send403" ELSE "validate",
                        client |-> c, valid |-> h \in ValidHeaders]]
    /\ UNCHANGED <<now, admission_vars, asset_vars, call, deleting>>

\* await self._validate_request(request)
ValidateStep(s) ==
    /\ inflight[s].pc = "validate"
    /\ inflight' = [inflight EXCEPT ![s].pc = IF inflight[s].valid THEN "log" ELSE "send400"]
    /\ UNCHANGED <<now, admission_vars, asset_vars, call, deleting>>

\* await self._log_request(request): prune, append and block in one piece
LogStep(s) ==
    /\ inflight[s].pc = "log"
    /\ LogRequest(inflight[s].client, now)
    /\ NoteAdmitted(inflight[s].client, now)
    /\ inflight' = [inflight EXCEPT ![s].pc = "app"]
    /\ UNCHANGED <<now, limiter_store, response, sent_start, sent_in, upload_log,
                   upload_run, sent, invalid_sent, asset_vars, call, deleting>>

\* await response(scope, receive, send) / await self.app(scope, receive, send)
\* returns: the request leaves the middleware
FinishStep(s) ==
    /\ inflight[s].pc \in {"send403", "send400", "app"}
    /\ inflight' = [inflight EXCEPT ![s] = Idle]
    /\ UNCHANGED <<now, admission_vars, asset_vars, call, deleting>>

\* time passes
Tick ==
    /\ now + TickStep <= MaxTicks * TickStep
    /\ now' = now + TickStep
    /\ UNCHANGED <<admission_vars, asset_vars, call, inflight, deleting>>

NoCall == [fn |-> "none"]

NoResponse == [client |-> "none", endpoint |-> "none", status |-> 0,
               forwarded |-> FALSE, handled |-> FALSE, script |-> FALSE,
               was_blocked |-> FALSE, had_burst |-> FALSE, had_sent_burst |-> FALSE,
               guard_checks |-> 0, recent_uploads |-> 0, run_uploads |-> 0]

Init ==
    /\ now = 0
    /\ request_count = <<>>
    /\ blocked_ips = {}
    /\ limiter_store = <<>>
    /\ response = NoResponse
    /\ admitted = [c \in Clients |-> <<>>]
    /\ burst = [c \in Clients |-> FALSE]
    /\ sent_start = [c \in Clients |-> 0]
    /\ sent_in = [c \in Clients |-> 0]
    /\ upload_log = [c \in Clients |-> <<>>]
    /\ upload_run = [c \in Clients |-> [start |-> 0, count |-> 0]]
    /\ sent = [c \in Clients |-> 0]
    /\ invalid_sent = 0
    /\ records = <<>>
    /\ files = <<>>
    /\ next_id = 0
    /\ next_token = 0
    /\ result = NoResult
    /\ en_track = "none"
    /\ call = NoCall
    /\ inflight = [s \in Slots |-> Idle]
    /\ deleting = [d \in DeleteSlots |-> NotDeleting]

(* SpecGuard: one client floods the guard in front of a route without an
   endpoint limit. *)
GuardRequest ==
    \E h \in RequestHeaders :
        /\ h \in ValidHeaders \/ invalid_sent < MaxInvalid
        /\ GuardedCall(Flooder, h, "list_all")

NextGuard == GuardRequest \/ Tick
SpecGuard == Init /\ [][NextGuard]_vars

(* SpecLimiter: the guard in front of the upload route.  The flooder sends
   up to MaxSent uploads, every other client up to MaxOther requests. *)
LimiterRequest ==
    \E c \in Clients, endpoint \in {"upload", "list_all"} :
        /\ IF c = Flooder THEN sent[c] < MaxSent /\ endpoint = "upload"
                          ELSE sent[c] < MaxOther
        /\ GuardedCall(c, NoHeaders, endpoint)

NextLimiter == LimiterRequest \/ Tick
SpecLimiter == Init /\ [][NextLimiter]_vars

(* SpecApp: the application as main.py assembles it. *)
AppRequest ==
    \E c \in Clients, endpoint \in {"upload", "list_all"}, h \in RequestHeaders :
        /\ IF c = Flooder THEN sent[c] < MaxSent /\ endpoint = "upload"
                          ELSE sent[c] < MaxOther
        /\ h \in ValidHeaders \/ invalid_sent < MaxInvalid
        /\ AppCall(c, h, endpoint)

NextApp == AppRequest \/ Tick
SpecApp == Init /\ [][NextApp]_vars

(* SpecAssets: the routes that upload, look up and delete assets. *)
\* the uploads drawn: every language with the declared mp3, every file as 'english'
UploadInputs ==
    (LanguageInputs \X {"mp3"}) \cup ({English} \X DOMAIN UploadFiles)

Upload ==
    \E u \in UploadInputs :
        /\ next_token < MaxUploads /\ next_id < MaxIds
        /\ UploadAudioFile(u[1], u[2])

Delete ==
    \E id \in Ids, remove_raises \in BOOLEAN :
        DeleteAudioFile(ObjectIdStr(id), remove_raises)

LookupInputs == {En, <<" ","E","N","G"," ">>}

GetByLanguage ==
    \E language \in LookupInputs : GetAudioByLanguage(language)

NextAssets == Upload \/ Delete \/ GetByLanguage \/ Tick
SpecAssets == Init /\ [][NextAssets]_vars

(* SpecStore: the routes and the service's create and update methods. *)
Create ==
    \E language \in {English, <<"f","r">>} :
        /\ next_id < MaxIds
        /\ CreateAudioFile(language, <<"s",".","m","p","3">>)

Update ==
    \E id \in Ids, update_data \in UpdateFields : UpdateAudioFile(id, update_data)

\* one step of the clock is enough to tell created_at from updated_at
StoreTick == now < TickStep /\ Tick

NextStore == Upload \/ Create \/ Update \/ Delete \/ GetByLanguage \/ StoreTick
SpecStore == Init /\ [][NextStore]_vars

(* SpecService: uploads and seeded records, then the calls that take an
   identifier as the caller wrote it. *)
DeleteAny ==
    \E audio_id \in IdInputs, remove_raises \in BOOLEAN :
        DeleteAudioFile(audio_id, remove_raises)

GetById ==
    \E audio_id \in IdInputs : GetAudioById(audio_id)

\* the service's update, with language values no validator has seen
Relabel ==
    \E id \in Ids, language \in { <<"F","R">>, <<"e","n","-","G","B">> } :
        UpdateAudioFile(id, [k \in {"language"} |-> language])

DirectLookup ==
    \E language \in {En, Eng, <<" ","E","N","G"," ">>, <<"A","r","a">>, <<"F","R">>} :
        ServiceLookup(language)

NextService ==
    Upload \/ Create \/ Relabel \/ DeleteAny \/ GetById \/ DirectLookup \/ ListLanguages
SpecService == Init /\ [][NextService]_vars

(* SpecPure: validate_audio_file and normalize_language_code applied to the
   inputs drawn. *)
UpperChar(ch) ==
    IF \E i \in 1..Len(LowerChars) : LowerChars[i] = ch
    THEN UpperChars[CHOOSE i \in 1..Len(LowerChars) : LowerChars[i] = ch]
    ELSE ch
StrUpper(s) == [i \in 1..Len(s) |-> UpperChar(s[i])]
StrCapital(s) == [i \in 1..Len(s) |-> IF i = 1 THEN UpperChar(s[i]) ELSE s[i]]

ValidateInputs ==
    [ filename : { <<>>, <<"a",".","m","p","3">>, <<"b",".","c",".","M","P","3">>,
                   <<"d",".","e","x","e">>, <<"m","p","3">>, <<"n","o","e","x","t">>,
                   <<"e",".","m","4","a">>, <<"f",".","o","g","g">>, <<"g",".">> },
      size : {-1, 0, 12, MAX_FILE_SIZE, MAX_FILE_SIZE + 1},
      content_type : { <<>>, AudioMpeg, TextPlain, <<"a","u","d","i","o">>,
                       <<"A","u","d","i","o","/","w","a","v">> } ]

NormalizeInputs ==
    LET words == { English, Eng, Arabic, Ara, En, Ar, <<"f","r">>, <<>>,
                   <<"e","n"," ","g","b">> }
        cased == UNION { {w, StrUpper(w), StrCapital(w)} : w \in words }
    IN  UNION { {w, <<" ">> \o w, w \o <<"\t">>, <<"\n"," ">> \o w \o <<" ">>} : w \in cased }

ValidateCall ==
    \E file \in ValidateInputs :
        /\ call' = [fn |-> "validate", arg |-> file, out |-> ValidateAudioFile(file)]
        /\ UNCHANGED <<now, admission_vars, asset_vars, inflight, deleting>>

NormalizeCall ==
    \E language \in NormalizeInputs :
        /\ call' = [fn |-> "normalize", arg |-> language,
                    out |-> NormalizeLanguageCode(language),
                    again |-> NormalizeLanguageCode(NormalizeLanguageCode(language))]
        /\ UNCHANGED <<now, admission_vars, asset_vars, inflight, deleting>>

NextPure == ValidateCall \/ NormalizeCall
SpecPure == Init /\ [][NextPure]_vars

(* SpecConcurrent: one client keeps MaxInflight requests inside the guard. *)
ConcurrentHeaders == {NoHeaders, [n \in {"x-real-ip"} |-> ScriptUpper]}

ArriveAny == \E s \in Slots, h \in ConcurrentHeaders : Arrive(s, Flooder, h)
ValidateAny == \E s \in Slots : ValidateStep(s)
LogAny == \E s \in Slots : LogStep(s)
FinishAny == \E s \in Slots : FinishStep(s)
ConcurrentTick == now < TickStep /\ Tick

NextConcurrent == ArriveAny \/ ValidateAny \/ LogAny \/ FinishAny \/ ConcurrentTick
SpecConcurrent == Init /\ [][NextConcurrent]_vars

(* SpecDeleteRace: uploads, unvalidated updates, and MaxDeletes delete
   requests that overlap. *)
ArriveDeleteAny ==
    \E d \in DeleteSlots, id \in Ids : ArriveDelete(d, ObjectIdStr(id))
LookupAny == \E d \in DeleteSlots : LookupStep(d)
StoreDeleteAny == \E d \in DeleteSlots : StoreDeleteStep(d)
RemoveAny == \E d \in DeleteSlots, remove_raises \in BOOLEAN : RemoveStep(d, remove_raises)

\* the record the deletes compete for
RaceUpload == next_id < MaxRaceRecords /\ Upload

NextDeleteRace ==
    RaceUpload \/ Relabel \/ ArriveDeleteAny \/ LookupAny \/ StoreDeleteAny \/ RemoveAny
SpecDeleteRace == Init /\ [][NextDeleteRace]_vars

-----------------------------------------------------------------------------
(* Claims *)

\* C1 as stated: a client that has issued 101 requests within 60 seconds
\* (whatever the guard answered them) gets 403 on every later request.
C1_AnyRequestsBlocked ==
    response.had_sent_burst => response.status = 403

\* C1, amended: a client of which 101 requests reached rate accounting (were
\* neither answered 403 nor 400) within less than 60 seconds is in the block
\* set from then on, and each of its later requests is answered 403 and not
\* forwarded, also after the window has expired.
C1_BlockedForever ==
    /\ \A c \in Clients : burst[c] => c \in blocked_ips
    /\ response.had_burst => response.status = 403 /\ ~response.forwarded

\* C1 witness: a 403 answered to the flooder a full window after its last
\* accounted request.
C1_Witness ==
    /\ response.had_burst /\ response.status = 403
    /\ Len(admitted[Flooder]) >= BurstSize
    /\ now - admitted[Flooder][Len(admitted[Flooder])] >= Window

\* C2: every request that reaches a route handler of the assembled
\* application went through the guard's three checks.
C2_EveryRequestGuarded ==
    response.forwarded => response.guard_checks = 3

\* C3 as stated: an upload that is (at least) the 11th of its client within
\* the last 60 seconds is answered 429.
C3_EleventhInSixtySeconds ==
    response.recent_uploads > UploadLimit => response.status = 429

\* C3, amended: an upload that reaches the route is answered 429, without
\* running the handler, exactly when it is the 11th or later upload of its
\* client counted in one limiter minute (the 60 seconds that start with the
\* client's first upload after the previous minute ended); the guard's count
\* and block set play no part in it.
C3_EleventhInLimiterMinute ==
    (response.forwarded /\ response.endpoint = "upload") =>
        /\ response.run_uploads > UploadLimit <=> response.status = 429
        /\ response.status = 429 => ~response.handled

\* C3 witness: the 11th upload answered 429 while the client's global count
\* is below 100 and the client is not blocked.
C3_Witness ==
    /\ response.status = 429 /\ response.run_uploads = UploadLimit + 1
    /\ response.client \notin blocked_ips
    /\ Len(RequestTimes(response.client)) < RateThreshold

\* C4 as stated: a request with a forwarding header containing '<script' is
\* answered 400 whatever the guard's state.
C4_ScriptAlways400 ==
    response.script => response.status = 400

\* C4, amended: such a request is never forwarded; it is answered 400 unless
\* its client is already in the block set, and then 403.
C4_ScriptRejected ==
    response.script =>
        /\ ~response.forwarded
        /\ response.status = IF response.was_blocked THEN 403 ELSE 400

\* C4 witness: a '<script' request answered 400 to a client with accounted requests.
C4_Witness ==
    /\ response.script /\ response.status = 400
    /\ Len(RequestTimes(response.client)) > 0

\* the file a record's filename names, as the delete route resolves it
RecordFile(d) == ResolveFile(JoinPath(AUDIO_FILES_PATH, d.filename))

\* C5 (as stated): after any sequence of uploads and deletes, every file
\* under the storage root has exactly one record with its filename and every
\* record's filename names an existing file.
C5_FilesMatchRecords ==
    /\ \A p \in DOMAIN files :
          InsideRoot(p) =>
              Cardinality({i \in 1..Len(records) :
                              /\ RecordFile(records[i]).ok
                              /\ RecordFile(records[i]).file = p}) = 1
    /\ \A i \in 1..Len(records) :
          /\ RecordFile(records[i]).ok
          /\ RecordFile(records[i]).file \in DOMAIN files

\* C6 (as stated): every file written by an upload lies inside the storage
\* root, and an upload whose generated name contains a path separator fails
\* with a storage error and writes nothing.
C6_WritesStayInsideRoot ==
    /\ \A p \in DOMAIN files : InsideRoot(p)
    /\ (result.op = "upload" /\ result.separator) =>
          (result.status = 500 /\ ~result.wrote)

\* C7 (as stated): in every reachable store state each record's language is
\* one of the canonical lower-case codes 'en' and 'ar'.
C7_LanguagesCanonical ==
    \A i \in 1..Len(records) : records[i].language \in {En, Ar}

\* the record an upload of a valid mp3 as 'english' has to yield
RoundTripRecord ==
    (result.op = "upload" /\ result.language = English /\ result.file \in Mp3Files) =>
        /\ result.status = 200
        /\ result.doc.language = En
        /\ result.doc.format = <<"m","p","3">>
        /\ result.doc.file_size = result.bytes
        /\ \E i \in 1..Len(records) : records[i] = result.doc

\* the oldest record stored under 'en'
OldestEn == FindOne(records, {i \in 1..Len(records) : records[i].language = En})

C9_DeleteExactlyOnce ==
    result.op = "delete" =>
        IF result.existed
        THEN /\ result.status = 200
             /\ \A i \in 1..Len(records) : records[i].id # result.id
        ELSE result.status = 404 /\ ~result.store_changed

\* C10 (as stated): when the store deletion removed the record and removing
\* the file fails, the delete still reports success and the failure is logged.
C10_RemoveFailureStillSucceeds ==
    (result.op = "delete" /\ result.store_deleted /\ result.remove_failed) =>
        (result.status = 200 /\ result.logged)

\* C11 (as stated): an upload whose language does not normalize to 'en' or
\* 'ar' is rejected with a 400-class response, never a 5xx.
C11_UnknownLanguageIs400 ==
    (result.op = "upload" /\ normalized[result.language] \notin {En, Ar}) =>
        (result.status >= 400 /\ result.status <= 499)

\* C12 (as stated): a getById or delete call with an identifier that is not
\* well-formed fails with an invalid-id error that is neither not-found nor a
\* storage failure (for the delete route a 400-class status other than 404),
\* and leaves the store unchanged.
C12_MalformedIdIs400 ==
    result.invalid_id =>
        /\ ~result.store_changed
        /\ result.raised = "InvalidId"
        /\ result.op = "delete" =>
              (result.status >= 400 /\ result.status <= 499 /\ result.status # 404)

\* the four checks of the validator as the specification words them; the
\* extension is what follows the last '.' of the filename (the whole name
\* when it has no '.'), an undeclared size or content type fails no check
SizeFails(file) == file.size # -1 /\ file.size > MAX_FILE_SIZE
FilenameFails(file) == Len(file.filename) = 0
LastDot(s) ==
    IF \E i \in 1..Len(s) : s[i] = "."
    THEN CHOOSE i \in 1..Len(s) : s[i] = "." /\ \A j \in (i + 1)..Len(s) : s[j] # "."
    ELSE 0
ExtensionFails(file) ==
    StrLower(SubSeq(file.filename, LastDot(file.filename) + 1, Len(file.filename)))
        \notin { <<"m","p","3">>, <<"w","a","v">>, <<"m","4","a">> }
ContentTypeFails(file) ==
    /\ Len(file.content_type) > 0
    /\ ~(Len(file.content_type) >= 6
           /\ SubSeq(file.content_type, 1, 6) = <<"a","u","d","i","o","/">>)

\* C13: validate reports the first failing check in the order size,
\* filename, extension, content type; it reports success exactly when no
\* check fails; it always returns one of these five answers.
C13_FirstFailingCheck ==
    call.fn = "validate" =>
        call.out = (IF SizeFails(call.arg) THEN "size exceeds maximum"
                    ELSE IF FilenameFails(call.arg) THEN "no filename"
                    ELSE IF ExtensionFails(call.arg) THEN "format not allowed"
                    ELSE IF ContentTypeFails(call.arg) THEN "not an audio file"
                    ELSE "ok")

\* C13 witness: an upload that fails the size check and the filename check is
\* answered with the size reason.
C13_Witness ==
    /\ call.fn = "validate"
    /\ SizeFails(call.arg) /\ FilenameFails(call.arg)
    /\ call.out = "size exceeds maximum"

\* C14: normalize is idempotent on every input, and 'English' and 'en' both
\* normalize to 'en'.
C14_NormalizeIdempotent ==
    /\ call.fn = "normalize" => call.again = call.out
    /\ NormalizeLanguageCode(<<"E","n","g","l","i","s","h">>) = En
    /\ NormalizeLanguageCode(En) = En

\* C14 witness: an upper-case alias with surrounding whitespace normalized
\* to 'ar', and to 'ar' again.
C14_Witness ==
    /\ call.fn = "normalize"
    /\ call.arg = <<"\n"," ","A","R","A","B","I","C"," ">>
    /\ call.out = Ar /\ call.again = Ar

\* C15: listLanguages has exactly one entry per distinct language of the
\* store, each with the number of records of that language, in ascending
\* order of the code; the display name is 'English' for 'en', 'Arabic' for
\* 'ar' and otherwise the code with its first letter in upper case.
C15_LanguageSummary ==
    result.op = "list_languages" =>
        LET L == result.languages IN
        /\ {L[k].language : k \in 1..Len(L)} = {records[i].language : i \in 1..Len(records)}
        /\ \A k \in 1..Len(L) :
              /\ L[k].count =
                    Cardinality({i \in 1..Len(records) : records[i].language = L[k].language})
              /\ \A m \in (k + 1)..Len(L) : StrLess(L[k].language, L[m].language)
              /\ IF L[k].language = <<"e","n">>
                 THEN L[k].language_name = <<"E","n","g","l","i","s","h">>
                 ELSE IF L[k].language = <<"a","r">>
                 THEN L[k].language_name = <<"A","r","a","b","i","c">>
                 ELSE /\ StrLower(L[k].language_name) = StrLower(L[k].language)
                      /\ L[k].language_name[1] = UpperChar(L[k].language[1])

\* C15 witness: 'en' stored before 'ar', listed as 'ar' then 'en'.
C15_Witness ==
    /\ result.op = "list_languages"
    /\ Len(records) = 2 /\ records[1].language = En /\ records[2].language = Ar
    /\ Len(result.languages) = 2
    /\ result.languages[1].language = Ar /\ result.languages[1].count = 1

\* C20 (as stated): the service's getByLanguage answers an input x as it
\* answers normalize(x).
C20_ServiceNormalizes ==
    result.op = "service_lookup" =>
        result.twin = [status |-> result.status, doc |-> result.doc]

\* what update(id, partial) has to do to the store and answer
PatchEffect(id, partial) ==
    LET hit == {i \in 1..Len(records) : records[i].id = id} IN
    IF hit = {}
    THEN result'.status = 404 /\ records' = records
    ELSE /\ result'.status = 200
         /\ Len(records') = Len(records)
         /\ \A i \in 1..Len(records) :
               IF i \in hit
               THEN /\ \A k \in DOMAIN records[i] :
                          records'[i][k] = (IF k \in DOMAIN partial THEN partial[k]
                                            ELSE IF k = "updated_at" THEN now
                                            ELSE records[i][k])
                    /\ result'.doc.id = id
                    /\ result'.doc.updated_at = now
               ELSE records'[i] = records[i]

\* C16 (as stated): update on an existing id changes exactly the fields of
\* the partial input and updatedAt, leaves every other field and record
\* unchanged and returns the updated record; it answers not-found only when
\* the id matches no record.
C16_UpdatePatches ==
    [][\A id \in Ids, partial \in UpdateFields :
          UpdateAudioFile(id, partial) => PatchEffect(id, partial)]_vars

\* C17: with several requests of one client inside the guard at once, no
\* update of the client's window or of the block set is lost: whenever none
\* of them is still on its way to rate accounting, the window holds one
\* timestamp per accounted in-window request, and the client is in the block
\* set if that number has exceeded 100.
C17_NoLostUpdate ==
    \A c \in Clients :
        (\A s \in Slots :
            inflight[s].client = c => inflight[s].pc \notin {"validate", "log"}) =>
            /\ RequestTimes(c) = admitted[c]
            /\ burst[c] => c \in blocked_ips

\* C17 witness: two requests passed the block-list check at 100 accounted
\* requests and both were accounted, the second after the client was blocked.
C17_Witness ==
    /\ Len(RequestTimes(Flooder)) = RateThreshold + 2
    /\ Flooder \in blocked_ips
    /\ \A s \in Slots : inflight[s].pc \in {"app", "idle"}

\* what the guard's accounting of a request of client c at the time now
\* leaves behind, in the words of C18
AccountingEffect(c) ==
    LET old == RequestTimes(c)
        kept == {i \in 1..Len(old) : now - old[i] < Window}
        w == request_count'[c]
    IN  /\ c \in DOMAIN request_count'
        /\ Len(w) = Cardinality(kept) + 1
        /\ w[Len(w)] = now
        /\ \A i \in 1..Len(w) : now - w[i] < Window
        /\ \A i \in 1..(Len(w) - 1) : w[i] = old[i + Len(old) - Cardinality(kept)]
        /\ \A i \in 1..(Len(w) - 1) : w[i] <= w[i + 1]
        /\ (c \in blocked_ips' /\ c \notin blocked_ips) <=> Len(w) > RateThreshold
        /\ blocked_ips' \ {c} = blocked_ips
        /\ response'.forwarded
        /\ response'.status = 200

\* C18: right after the guard accounts a request at time t the client's
\* window ends with t, holds only timestamps s with t - s < 60, in arrival
\* order; the client enters the block set in that step exactly when the
\* window then has more than 100 entries; the request is forwarded.
C18_AccountingStep ==
    [][(/\ response'.guard_checks = 3
        /\ \E h \in RequestHeaders : GuardedCall(Flooder, h, "list_all"))
           => AccountingEffect(Flooder)]_vars

\* C18 witness: the request that triggers the block, forwarded, with a
\* window that starts at an earlier clock reading and ends at this one.
C18_Witness ==
    /\ response.guard_checks = 3
    /\ response.forwarded
    /\ ~response.was_blocked
    /\ Flooder \in blocked_ips
    /\ Len(RequestTimes(Flooder)) = RateThreshold + 1
    /\ RequestTimes(Flooder)[1] < now
    /\ RequestTimes(Flooder)[RateThreshold + 1] = now
    /\ now = MaxTicks * TickStep

\* the content-length header is present, not empty, and is not a number or
\* is a number above the body limit
BadContentLength(h) ==
    /\ "content-length" \in DOMAIN h
    /\ h["content-length"] # <<>>
    /\ \/ \E i \in 1..Len(h["content-length"]) : ~IsDigit(h["content-length"][i])
       \/ ParseInt(h["content-length"]) > MaxBodySize

\* C19: the block list is consulted first, structural validation second and
\* rate accounting last; a request answered 403 or 400 (a non-numeric or
\* over-limit content-length is answered so) changes no window, no block set
\* and is not forwarded.
C19_RejectedLeavesState ==
    [][/\ (\E h \in RequestHeaders : GuardedCall(Flooder, h, "list_all")) =>
              /\ IsBlocked(Flooder) => response'.status = 403
              /\ response'.status = 400 => response'.guard_checks = 2
              /\ response'.status \in {400, 403} =>
                     /\ request_count' = request_count
                     /\ blocked_ips' = blocked_ips
                     /\ admitted' = admitted
                     /\ limiter_store' = limiter_store
                     /\ ~response'.forwarded
                     /\ ~response'.handled
              /\ response'.status \notin {400, 403} =>
                     /\ ~IsBlocked(Flooder)
                     /\ response'.guard_checks = 3
                     /\ request_count'[Flooder] # RequestTimes(Flooder)
       /\ \A h \in RequestHeaders :
              (/\ BadContentLength(h) \/ h \in ScriptHeaders
               /\ GuardedCall(Flooder, h, "list_all"))
                  => response'.status = (IF IsBlocked(Flooder) THEN 403 ELSE 400)]_vars

\* C19 witness: a request carrying a script pattern arrives from the blocked
\* client: it is answered 403, not 400, and the window still has the 101
\* entries it had.
C19_Witness ==
    /\ response.status = 403
    /\ response.script
    /\ response.was_blocked
    /\ ~response.forwarded
    /\ Len(RequestTimes(Flooder)) = RateThreshold + 1

\* the file a record names is in the storage directory
FileStored(doc) ==
    LET target == ResolveFile(JoinPath(AUDIO_FILES_PATH, doc.filename)) IN
    target.ok /\ target.file \in DOMAIN files

\* two delete requests that arrived for the same id while its record
\* existed, both answered
BothDeleted(a, b) ==
    /\ a # b
    /\ deleting[a].pc = "done" /\ deleting[b].pc = "done"
    /\ deleting[a].audio_id = deleting[b].audio_id
    /\ deleting[a].target # NoDoc /\ deleting[b].target # NoDoc

\* C21 (as stated): two overlapping deletes of one existing id, in whatever
\* order their lookups, store deletes and file removals interleave: one
\* answers 200, the other 404, none answers 5xx, and afterwards the record
\* and its file are gone.
C21_InterleavedDeletes ==
    \A a, b \in DeleteSlots :
        BothDeleted(a, b) =>
            /\ {deleting[a].status, deleting[b].status} = {200, 404}
            /\ \A i \in 1..Len(records) : records[i].id # deleting[a].target.id
            /\ ~FileStored(deleting[a].target)

=============================================================================
